---- MODULE Spec2Model ----
\* Session/refresh controller of the web admin UI (src/src/main.rs, App).
\* State: the auth_token signal, the SessionStorage entry, the refresh
\* resource's scheduled run, the refresh calls in flight and the pending
\* set_timeout callbacks.  One action per callback of the event loop.
EXTENDS Integers, Sequences, FiniteSets, Bags, TLC

\* ---------------------------------------------------------------- bounds
MaxCalls == 2
MaxTimers == 2

\* ---------------------------------------------------------------- values
BaseUrls == {"U1", "U2"}
LoginRefreshTokens == {"", "R"}
GrantAccessTokens == {"A2"}
GrantRefreshTokens == {<<>>, <<"R2">>}
ExpiresIn == {0, 60}

\* AuthToken::default(): every string empty, every flag false.
DefaultToken ==
    [base_url |-> "", access_token |-> "", refresh_token |-> "",
     is_valid |-> FALSE, is_admin |-> FALSE]

\* Records a login flow writes (fresh access token "A").
LoginTokens ==
    [base_url : BaseUrls, access_token : {"A"}, refresh_token : LoginRefreshTokens,
     is_valid : BOOLEAN, is_admin : BOOLEAN]

\* Records a refresh has left in the store on an earlier page load.
RefreshedTokens ==
    [base_url : BaseUrls, access_token : GrantAccessTokens, refresh_token : {"", "R2"},
     is_valid : {TRUE}, is_admin : BOOLEAN]

\* The SessionStorage entry under STATE_STORAGE_KEY: absent, not
\* deserialisable as an AuthToken, or a serialised AuthToken.
AbsentEntry == [kind |-> "absent", token |-> DefaultToken]
MalformedEntry == [kind |-> "malformed", token |-> DefaultToken]
TokenEntry(t) == [kind |-> "token", token |-> t]
StoredEntries ==
    {AbsentEntry, MalformedEntry} \cup {TokenEntry(t) : t \in LoginTokens \cup RefreshedTokens}

\* OAuth grant returned by oauth_refresh_token; refresh_token is an Option,
\* written as a sequence of length 0 (None) or 1 (Some).
Grants ==
    [access_token : GrantAccessTokens, refresh_token : GrantRefreshTokens,
     expires_in : ExpiresIn]
NoGrant == [access_token |-> "", refresh_token |-> <<>>, expires_in |-> 0]

\* No call: the value of last.call when the last callback resolved none.
NoCall == [base_url |-> "", refresh_token |-> ""]

VARIABLES phase, store, auth_token, pending_run, calls, timers, last, location
vars == <<phase, store, auth_token, pending_run, calls, timers, last, location>>

\* ---------------------------------------------------------------- helpers
RemoveAt(s, i) == [k \in 1..(Len(s) - 1) |-> IF k < i THEN s[k] ELSE s[k + 1]]

unwrap_or_default(o) == IF o = <<>> THEN "" ELSE o[1]

\* Variant: a stale record does not count as logged in.
is_logged_in_Mutant(t) == t.access_token # "" /\ t.is_valid

is_logged_in(t) == t.access_token # ""
is_admin(t) == t.is_admin


\* ---------------------------------------------------------------- routes
\* A route of the <Routes> tree: its own path and the path of the
\* ProtectedRoute it is nested in ("" at the top level).
Route(parent, path) == [parent |-> parent, path |-> path]

\* Routes declared with condition=move || is_admin.get().
IsAdminRoutes ==
    {Route("/manage", p) : p \in
        {"/directory/domains", "/directory/domains/edit", "/directory/domains/:id/view",
         "/directory/:object", "/directory/:object/:id?/edit",
         "/queue/messages", "/queue/message/:id", "/queue/reports", "/queue/report/:id",
         "/reports/:object", "/reports/:object/:id",
         "/logs", "/spam/train", "/spam/test", "/maintenance"}}
    \cup {Route("", "/settings")}
    \cup {Route("/settings", p) : p \in {"/:object", "/:object/:id?/edit", "/search"}}

\* Routes declared with condition=move || is_logged_in.get().
IsLoggedInRoutes ==
    {Route("", "/manage"), Route("", "/account")}
    \cup {Route("/account", p) : p \in
            {"/crypto", "/password", "/mfa", "/app-passwords", "/app-passwords/edit"}}

\* Plain <Route>s.
PublicRoutes == {Route("", p) : p \in {"/", "/login", "/authorize/:type?", "/*any"}}

Routes == IsAdminRoutes \cup IsLoggedInRoutes \cup PublicRoutes

\* redirect_path="/login" of every ProtectedRoute.
LoginRoute == Route("", "/login")

\* Variant: every guard tests is_logged_in.
condition_Mutant(r, t) ==
    IF r \in IsAdminRoutes \cup IsLoggedInRoutes THEN is_logged_in(t) ELSE TRUE

\* The condition closure of a route, read on the current derived views.
condition(r, t) ==
    IF r \in IsAdminRoutes THEN is_admin(t)
    ELSE IF r \in IsLoggedInRoutes THEN is_logged_in(t)
    ELSE TRUE

\* The matched routes from the top-level route down to r.
Chain(r) == IF r.parent = "" THEN <<r>> ELSE <<Route("", r.parent), r>>

\* ProtectedRoute: a route's view is rendered when its condition holds and
\* is a redirect otherwise; a nested route is rendered inside its parent's
\* view only.  The result is the route shown for a navigation to r.
Resolve(r, t) ==
    IF \A i \in DOMAIN Chain(r) : condition(Chain(r)[i], t) THEN r ELSE LoginRoute

\* Variant: the guards are evaluated at navigation only.
Rerender_Mutant(loc, t) == loc

\* The guards of the route on display are evaluated again when a derived
\* view changes.
Rerender(loc, t) == Resolve(loc, t)

\* Paths the user navigates to: every guarded layout, one route nested in
\* each, and the login page.
NavTargets ==
    {LoginRoute, Route("", "/manage"), Route("/manage", "/directory/domains"),
     Route("", "/settings"), Route("/settings", "/search"),
     Route("", "/account"), Route("/account", "/crypto")}

\* Variant: the stored record is installed as it is, is_valid included.
InitialAuthToken_Mutant(entry) ==
    IF entry.kind = "token" THEN entry.token ELSE DefaultToken

\* SessionStorage::get(..).map(|t| { t.is_valid = false; t }).unwrap_or_default()
InitialAuthToken(entry) ==
    IF entry.kind = "token" THEN [entry.token EXCEPT !.is_valid = FALSE] ELSE DefaultToken

\* The arguments of oauth_refresh_token(&base_url, &refresh_token): a call in flight.
oauth_refresh_token(t) == [base_url |-> t.base_url, refresh_token |-> t.refresh_token]

\* Variant: the staleness flag is not consulted.
TriggerCondition_Mutant(t) == t.refresh_token # ""

\* if !changed_auth_token.is_valid && !changed_auth_token.refresh_token.is_empty()
TriggerCondition(t) == ~t.is_valid /\ t.refresh_token # ""

\* Variant: every update notifies the resource, changed value or not.
Notify_Mutant(old, new) == <<new>>

\* The resource's source is a memo over auth_token.get(): the fetcher is
\* scheduled only when the new value differs from the previous one.
Notify(old, new) == IF new # old THEN <<new>> ELSE <<>>

\* Variant: the grant's access token is not installed.
ApplyGrant_Mutant(t, g) ==
    [t EXCEPT !.refresh_token = unwrap_or_default(g.refresh_token),
              !.is_valid = TRUE]

\* auth_token.update(|auth_token| { ... }) of the grant branch.
ApplyGrant(t, g) ==
    [t EXCEPT !.access_token = g.access_token,
              !.refresh_token = unwrap_or_default(g.refresh_token),
              !.is_valid = TRUE]

\* SessionStorage::set(STATE_STORAGE_KEY, auth_token.clone()); an Err is logged only.
Save(entry, t, ok) == IF ok THEN TokenEntry(t) ELSE entry

\* Variant: the refresh token is not consulted before arming.
ArmCondition_Mutant(g) == g.expires_in > 0

\* if grant.expires_in > 0 && !refresh_token.is_empty()
ArmCondition(g) == g.expires_in > 0 /\ unwrap_or_default(g.refresh_token) # ""

\* set_timeout(.., Duration::from_secs(grant.expires_in)): the handle is dropped.
set_timeout(ts, g) == IF ArmCondition(g) THEN Append(ts, g.expires_in) ELSE ts

\* Variant: expiry also drops the refresh token.
Expire_Mutant(t) == [t EXCEPT !.is_valid = FALSE, !.refresh_token = ""]

\* The timer's closure: auth_token.update(|auth_token| auth_token.is_valid = false).
Expire(t) == [t EXCEPT !.is_valid = FALSE]

\* Bounds of the model: a step that would start one more call or timer
\* than the bound is not taken.
CallRoom(old, new) ==
    (new # old /\ TriggerCondition(new)) => BagCardinality(calls) < MaxCalls
TimerRoom(g) == ArmCondition(g) => Len(timers) < MaxTimers

\* The record of the last callback: route is the route on display before it
\* ran (for a navigation, the route asked for).
Op(name) ==
    [op |-> name, grant |-> NoGrant, saved |-> FALSE, call |-> NoCall, route |-> location]

\* ---------------------------------------------------------------- behaviour
Init ==
    /\ phase = "init"
    /\ store \in StoredEntries
    /\ auth_token = DefaultToken
    /\ pending_run = <<>>
    /\ calls = EmptyBag
    /\ timers = <<>>
    /\ location = LoginRoute
    /\ last = Op("none")

\* App(): create_rw_signal(..) and create_resource(..), whose first run is
\* scheduled with the initial value.
AppStart ==
    /\ phase = "init"
    /\ phase' = "running"
    /\ auth_token' = InitialAuthToken(store)
    /\ pending_run' = <<InitialAuthToken(store)>>
    /\ last' = Op("start")
    /\ location' = Rerender(location, InitialAuthToken(store))
    /\ UNCHANGED <<store, calls, timers>>

\* One run of the resource's fetcher up to its await.
RunRefreshTask ==
    /\ phase = "running"
    /\ pending_run # <<>>
    /\ LET changed_auth_token == Head(pending_run) IN
         calls' = IF TriggerCondition(changed_auth_token)
                  THEN calls (+) SetToBag({oauth_refresh_token(changed_auth_token)})
                  ELSE calls
    /\ pending_run' = <<>>
    /\ last' = Op("run")
    /\ UNCHANGED <<phase, store, auth_token, timers, location>>

\* Variant: a failed refresh schedules a new run for the same record.
RefreshFail_Retry(c) ==
    /\ phase = "running"
    /\ pending_run = <<>>
    /\ calls' = calls (-) SetToBag({c})
    /\ pending_run' = <<auth_token>>
    /\ last' = Op("fail")
    /\ UNCHANGED <<phase, store, auth_token, timers, location>>

\* Variant: a failed refresh drops the session.
RefreshFail_Mutant(c) ==
    /\ phase = "running"
    /\ pending_run = <<>>
    /\ calls' = calls (-) SetToBag({c})
    /\ auth_token' = DefaultToken
    /\ store' = AbsentEntry
    /\ pending_run' = Notify(auth_token, DefaultToken)
    /\ last' = Op("fail")
    /\ location' = Rerender(location, DefaultToken)
    /\ UNCHANGED <<phase, timers>>

\* oauth_refresh_token(..).await yields None.
RefreshFail(c) ==
    /\ phase = "running"
    /\ pending_run = <<>>
    /\ calls' = calls (-) SetToBag({c})
    /\ last' = Op("fail")
    /\ UNCHANGED <<phase, store, auth_token, pending_run, timers, location>>

\* Variant: a grant is dropped when the record is no longer the one the call
\* was issued for.
RefreshGrant_Cancelling(c, grant, saveOk) ==
    /\ phase = "running"
    /\ pending_run = <<>>
    /\ TimerRoom(grant)
    /\ LET new == IF oauth_refresh_token(auth_token) = c
                  THEN ApplyGrant(auth_token, grant) ELSE auth_token IN
         /\ auth_token' = new
         /\ store' = Save(store, new, saveOk)
         /\ pending_run' = Notify(auth_token, new)
         /\ location' = Rerender(location, new)
    /\ timers' = set_timeout(timers, grant)
    /\ calls' = calls (-) SetToBag({c})
    /\ last' = [op |-> "grant", grant |-> grant, saved |-> saveOk, call |-> c,
                route |-> location]
    /\ UNCHANGED phase

\* oauth_refresh_token(..).await yields Some(grant).
RefreshGrant(c, grant, saveOk) ==
    /\ phase = "running"
    /\ pending_run = <<>>
    /\ TimerRoom(grant)
    /\ LET new == ApplyGrant(auth_token, grant) IN
         /\ auth_token' = new
         /\ store' = Save(store, new, saveOk)
         /\ pending_run' = Notify(auth_token, new)
         /\ location' = Rerender(location, new)
    /\ timers' = set_timeout(timers, grant)
    /\ calls' = calls (-) SetToBag({c})
    /\ last' = [op |-> "grant", grant |-> grant, saved |-> saveOk, call |-> c,
                route |-> location]
    /\ UNCHANGED phase

\* Variant: the timer's update is also written to the store.
TimerFire_Mutant(j) ==
    /\ phase = "running"
    /\ pending_run = <<>>
    /\ CallRoom(auth_token, Expire(auth_token))
    /\ auth_token' = Expire(auth_token)
    /\ store' = TokenEntry(Expire(auth_token))
    /\ pending_run' = Notify(auth_token, Expire(auth_token))
    /\ location' = Rerender(location, Expire(auth_token))
    /\ timers' = RemoveAt(timers, j)
    /\ last' = Op("timer")
    /\ UNCHANGED <<phase, calls>>

\* A pending timeout fires.
TimerFire(j) ==
    /\ phase = "running"
    /\ pending_run = <<>>
    /\ CallRoom(auth_token, Expire(auth_token))
    /\ auth_token' = Expire(auth_token)
    /\ pending_run' = Notify(auth_token, Expire(auth_token))
    /\ location' = Rerender(location, Expire(auth_token))
    /\ timers' = RemoveAt(timers, j)
    /\ last' = Op("timer")
    /\ UNCHANGED <<phase, store, calls>>

\* Login flow: writes a brand-new record and saves it.  The login page is
\* outside this file; which record it writes is left open (any fresh record
\* with an access token, valid or stale).  Next takes its save as succeeding:
\* the failing save of this file is the one of RefreshGrant.
Login(t, saveOk) ==
    /\ phase = "running"
    /\ pending_run = <<>>
    /\ CallRoom(auth_token, t)
    /\ auth_token' = t
    /\ store' = Save(store, t, saveOk)
    /\ pending_run' = Notify(auth_token, t)
    /\ location' = Rerender(location, t)
    /\ last' = [op |-> "login", grant |-> NoGrant, saved |-> saveOk, call |-> NoCall,
                route |-> location]
    /\ UNCHANGED <<phase, calls, timers>>

\* Logout: clears the record and the persisted entry.
Logout ==
    /\ phase = "running"
    /\ pending_run = <<>>
    /\ auth_token' = DefaultToken
    /\ store' = AbsentEntry
    /\ pending_run' = Notify(auth_token, DefaultToken)
    /\ location' = Rerender(location, DefaultToken)
    /\ last' = Op("logout")
    /\ UNCHANGED <<phase, calls, timers>>

Next ==
    \/ AppStart
    \/ RunRefreshTask
    \/ \E c \in BagToSet(calls) : RefreshFail(c)
    \/ \E c \in BagToSet(calls), grant \in Grants, saveOk \in BOOLEAN :
         RefreshGrant(c, grant, saveOk)
    \/ \E j \in DOMAIN timers : TimerFire(j)
    \/ \E t \in LoginTokens : Login(t, TRUE)
    \/ Logout

Spec == Init /\ [][Next]_vars

\* The user (or a page) navigates to a path: the router matches it and
\* renders its guards from the top-level route down.
Navigate(r) ==
    /\ phase = "running"
    /\ pending_run = <<>>
    /\ location' = Resolve(r, auth_token)
    /\ last' = [Op("navigate") EXCEPT !.route = r]
    /\ UNCHANGED <<phase, store, auth_token, pending_run, calls, timers>>

\* The router with the events that can turn a derived view false: start,
\* login and logout, next to navigation.  Refresh calls are issued and fail;
\* grants and timers, which neither empty access_token nor change the role,
\* are left to Spec.
NavNext ==
    \/ AppStart
    \/ RunRefreshTask
    \/ \E c \in BagToSet(calls) : RefreshFail(c)
    \/ \E t \in LoginTokens : Login(t, TRUE)
    \/ Logout
    \/ \E r \in NavTargets : Navigate(r)

NavSpec == Init /\ [][NavNext]_vars

\* A call in flight resolves, with or without a grant (the transport bounds
\* every call by a timeout).
Resolution ==
    \E c \in BagToSet(calls) :
        \/ RefreshFail(c)
        \/ \E grant \in Grants, saveOk \in BOOLEAN : RefreshGrant(c, grant, saveOk)

\* The event loop runs every scheduled run of the fetcher, fires every
\* pending timeout and delivers the result of every call.
LiveSpec ==
    /\ Spec
    /\ WF_vars(RunRefreshTask)
    /\ WF_vars(\E j \in DOMAIN timers : TimerFire(j))
    /\ WF_vars(Resolution)

TypeOK ==
    /\ phase \in {"init", "running"}
    /\ Len(pending_run) <= 1
    /\ BagCardinality(calls) <= MaxCalls
    /\ Len(timers) <= MaxTimers

\* ---------------------------------------------------------------- properties
\* The store mirrors the record: it holds the record, or both are cleared.
Mirrors(entry, t) == entry = TokenEntry(t) \/ (entry.kind = "absent" /\ t = DefaultToken)

ScenarioGrant == [access_token |-> "A2", refresh_token |-> <<>>, expires_in |-> 60]

\* C1: with {accessToken "A", refreshToken "R", isValid true} stored at start
\* and a saved grant {accessToken "A2", expiresInSeconds 60} without a refresh
\* token, the record becomes {"A2", "R", valid}, the persisted entry equals
\* it and one more timer is pending.
C1_ScenarioKeepsRefreshToken ==
    [][(/\ last'.op = "grant" /\ last'.saved /\ last'.grant = ScenarioGrant
        /\ store.kind = "token"
        /\ store.token.access_token = "A" /\ store.token.refresh_token = "R"
        /\ store.token.is_valid
        /\ auth_token = [store.token EXCEPT !.is_valid = FALSE])
       => (/\ auth_token'.access_token = "A2"
           /\ auth_token'.refresh_token = "R"
           /\ auth_token'.is_valid
           /\ store' = TokenEntry(auth_token')
           /\ Len(timers') = Len(timers) + 1)]_vars

\* C2: right after application start an installed stored record has
\* isValid = false and the stored baseUrl, accessToken and refreshToken; with
\* no or an unreadable stored record the initial record is the empty one.
C2_StartForcesRecheck ==
    last.op = "start" =>
        IF store.kind = "token"
        THEN /\ ~auth_token.is_valid
             /\ auth_token.base_url = store.token.base_url
             /\ auth_token.access_token = store.token.access_token
             /\ auth_token.refresh_token = store.token.refresh_token
        ELSE /\ auth_token.access_token = ""
             /\ auth_token.refresh_token = ""
             /\ auth_token = DefaultToken

C2_Witness ==
    /\ last.op = "start"
    /\ store.kind = "token"
    /\ store.token.is_valid
    /\ ~auth_token.is_valid
    /\ auth_token.refresh_token = store.token.refresh_token

\* C3: a refresh call is issued only by a run of the refresh task whose
\* observed record has isValid = false and a non-empty refreshToken; any other
\* run issues no call, changes no state and arms no timer.
C3_CallOnlyWhenStale ==
    [][/\ (BagCardinality(calls') > BagCardinality(calls)) =>
             (/\ last'.op = "run"
              /\ ~Head(pending_run).is_valid
              /\ Head(pending_run).refresh_token # ""
              /\ calls' = calls (+) SetToBag({oauth_refresh_token(Head(pending_run))}))
       /\ (/\ last'.op = "run"
           /\ (Head(pending_run).is_valid \/ Head(pending_run).refresh_token = ""))
             => UNCHANGED <<auth_token, store, calls, timers>>]_vars

C3_Witness ==
    /\ last.op = "run"
    /\ ~auth_token.is_valid
    /\ auth_token.refresh_token # ""
    /\ calls = SetToBag({oauth_refresh_token(auth_token)})

\* C4: a refresh call that returns no grant leaves the record, the persisted
\* entry and the pending timers as they were, arms nothing, schedules no run,
\* and isLoggedIn and isAdmin keep their values.
C4_FailureChangesNothing ==
    [][last'.op = "fail" =>
          /\ auth_token' = auth_token
          /\ store' = store
          /\ timers' = timers
          /\ pending_run' = <<>>
          /\ is_logged_in(auth_token') = is_logged_in(auth_token)
          /\ is_admin(auth_token') = is_admin(auth_token)]_vars

C4_Witness ==
    /\ last.op = "fail"
    /\ auth_token.access_token # ""
    /\ ~auth_token.is_valid
    /\ auth_token.refresh_token # ""
    /\ store.kind = "token"

\* C5: after a successful refresh and after an expiry timer has cleared
\* isValid, the persisted entry equals the in-memory record, isValid included.
C5_StoreMirrorsRecord ==
    ((last.op = "grant" /\ last.saved) \/ last.op = "timer") => Mirrors(store, auth_token)

\* C6: at most one expiry timer is pending at any time.
C6_SingleTimer == Len(timers) <= 1

\* C7: logout clears the record and the persisted entry; a timer firing on
\* the cleared record leaves accessToken and refreshToken empty, leaves the
\* persisted entry cleared and leads to no refresh call.
C7_TimerAfterLogoutIsNoOp ==
    [][/\ last'.op = "logout" => (auth_token' = DefaultToken /\ store' = AbsentEntry)
       /\ (last'.op = "timer" /\ auth_token = DefaultToken /\ store = AbsentEntry) =>
             /\ auth_token'.access_token = ""
             /\ auth_token'.refresh_token = ""
             /\ store' = AbsentEntry
             /\ calls' = calls
             /\ \A k \in DOMAIN pending_run' : ~TriggerCondition(pending_run'[k])]_vars

C7_Witness ==
    /\ last.op = "timer"
    /\ auth_token = DefaultToken
    /\ store = AbsentEntry

\* C8: a firing timer changes nothing of the record but isValid, which
\* becomes false; isLoggedIn and isAdmin keep their values.
C8_TimerOnlyClearsValid ==
    [][last'.op = "timer" =>
          /\ ~auth_token'.is_valid
          /\ auth_token'.base_url = auth_token.base_url
          /\ auth_token'.access_token = auth_token.access_token
          /\ auth_token'.refresh_token = auth_token.refresh_token
          /\ is_logged_in(auth_token') = is_logged_in(auth_token)
          /\ is_admin(auth_token') = is_admin(auth_token)]_vars

C8_Witness ==
    /\ last.op = "timer"
    /\ pending_run = <<auth_token>>
    /\ ~auth_token.is_valid
    /\ auth_token.access_token # ""
    /\ auth_token.refresh_token # ""

\* C9: a successful refresh arms a timer exactly when the grant's expiry is
\* positive and the record's refresh token after the update is non-empty;
\* otherwise the pending timers are unchanged.
C9_ArmIffRenewable ==
    [][last'.op = "grant" =>
          IF last'.grant.expires_in > 0 /\ auth_token'.refresh_token # ""
          THEN timers' = Append(timers, last'.grant.expires_in)
          ELSE timers' = timers]_vars

C9_Witness ==
    /\ last.op = "grant"
    /\ last.grant.expires_in > 0
    /\ auth_token.refresh_token # ""
    /\ Len(timers) = 1

\* The grant's effect on the record (C10), without the persisted entry.
GrantInstalled(old, new, g) ==
    /\ new.access_token = g.access_token
    /\ (g.refresh_token # <<>> => new.refresh_token = g.refresh_token[1])
    /\ new.is_valid
    /\ new.base_url = old.base_url

\* C10 as stated: a grant installs accessToken, the provided refreshToken,
\* isValid = true, keeps baseUrl, and the persisted entry equals the record
\* right after the update.
C10_GrantAlwaysPersisted ==
    [][last'.op = "grant" =>
          /\ GrantInstalled(auth_token, auth_token', last'.grant)
          /\ store' = TokenEntry(auth_token')]_vars

\* C10 (amended): a grant installs accessToken, the provided refreshToken,
\* isValid = true and keeps baseUrl in one update; the persisted entry equals
\* the record right after it when the save succeeds and is unchanged when
\* the save fails.
C10_GrantInstalledAndSaved ==
    [][last'.op = "grant" =>
          /\ GrantInstalled(auth_token, auth_token', last'.grant)
          /\ (last'.saved => store' = TokenEntry(auth_token'))
          /\ (~last'.saved => store' = store)]_vars

C10_Witness ==
    /\ last.op = "grant"
    /\ last.saved
    /\ last.grant.refresh_token = <<"R2">>
    /\ auth_token.access_token = "A2"
    /\ auth_token.refresh_token = "R2"
    /\ auth_token.is_valid
    /\ store = TokenEntry(auth_token)

\* C11: a run of the refresh task is scheduled only by a change of the
\* record's content (or by application start), and a run issues at most one
\* call; reading or notifying an unchanged stale record issues no second call.
C11_OneCallPerChange ==
    [][/\ (pending_run' # <<>> /\ last'.op # "start") =>
             (auth_token' # auth_token /\ pending_run' = <<auth_token'>>)
       /\ BagCardinality(calls') <= BagCardinality(calls) + 1
       /\ (auth_token' = auth_token /\ last'.op # "run") =>
             BagCardinality(calls') <= BagCardinality(calls)]_vars

\* A login rewrote the very record that is stale with its call in flight.
C11_Witness ==
    /\ last.op = "login"
    /\ TriggerCondition(auth_token)
    /\ pending_run = <<>>
    /\ calls = SetToBag({oauth_refresh_token(auth_token)})

\* C12: a change of the record cancels no call in flight, and a grant is
\* applied to the record current when it resolves: accessToken and
\* refreshToken installed, isValid true, the rest of that record kept.
C12_GrantAppliedToCurrentRecord ==
    [][/\ last'.op \in {"login", "logout", "timer"} => calls' = calls
       /\ last'.op = "grant" =>
             /\ auth_token'.access_token = last'.grant.access_token
             /\ auth_token'.refresh_token = unwrap_or_default(last'.grant.refresh_token)
             /\ auth_token'.is_valid
             /\ auth_token'.base_url = auth_token.base_url
             /\ auth_token'.is_admin = auth_token.is_admin]_vars

\* The grant of a call issued for another record has been installed.
C12_Witness ==
    /\ last.op = "grant"
    /\ last.call.base_url # auth_token.base_url
    /\ auth_token.access_token = last.grant.access_token
    /\ auth_token.is_valid

\* C16: a failed refresh schedules no run and arms no timer, and from the
\* state it leaves a step that does not change the record issues no call and
\* schedules no run.
C16_NoRetryAfterFailure ==
    [][/\ last'.op = "fail" =>
             /\ pending_run' = <<>>
             /\ timers' = timers
             /\ BagCardinality(calls') = BagCardinality(calls) - 1
       /\ (last.op = "fail" /\ auth_token' = auth_token) =>
             /\ pending_run' = <<>>
             /\ BagCardinality(calls') <= BagCardinality(calls)]_vars

\* A renewable stale record after a failure: nothing in flight, nothing scheduled.
C16_Witness ==
    /\ last.op = "fail"
    /\ TriggerCondition(auth_token)
    /\ pending_run = <<>>
    /\ calls = EmptyBag
    /\ timers = <<>>

\* C18: once the record and the persisted entry are cleared, they stay
\* cleared until a login writes a new record.
C18_ClearedUntilLogin ==
    [][(/\ phase = "running"
        /\ auth_token = DefaultToken
        /\ store = AbsentEntry
        /\ last'.op # "login")
       => (/\ auth_token'.access_token = ""
           /\ auth_token'.refresh_token = ""
           /\ store' = AbsentEntry)]_vars

\* C19: a grant is installed into a record written by a login only if the
\* call was issued with that record's baseUrl and refreshToken.
C19_GrantForSameSession ==
    [][(last'.op = "grant" /\ auth_token \in LoginTokens)
       => oauth_refresh_token(auth_token) = last'.call]_vars
\* A successful refresh has just armed a timer.
TimerArmed == last.op = "grant" /\ ArmCondition(last.grant)

\* A run has just issued a call with the record's current refresh token.
CallRenewed ==
    /\ last.op = "run"
    /\ TriggerCondition(auth_token)
    /\ BagIn(oauth_refresh_token(auth_token), calls)

\* C15: after a refresh has armed a timer, unless a login or logout
\* intervenes, the timer fires and a new run issues a refresh call with the
\* record's current refreshToken.
C15_RenewalCycleRepeats ==
    TimerArmed ~> (CallRenewed \/ last.op \in {"login", "logout"})

\* What C13 requires of a route: /manage's nested routes need isLoggedIn and
\* isAdmin, the /manage layout isLoggedIn, /settings and its nested routes
\* isAdmin, /account and its nested routes isLoggedIn, the others nothing.
Required(r, t) ==
    IF r.parent = "/manage" THEN is_logged_in(t) /\ is_admin(t)
    ELSE IF r = Route("", "/manage") THEN is_logged_in(t)
    ELSE IF r.parent = "/settings" \/ r = Route("", "/settings") THEN is_admin(t)
    ELSE IF r.parent = "/account" \/ r = Route("", "/account") THEN is_logged_in(t)
    ELSE TRUE

\* C13: for the current record every route of the tree is rendered exactly
\* when its own predicate and its ancestors' hold and is a redirect to
\* /login otherwise, and a navigation ends on the requested route or on
\* /login accordingly.
C13_GuardsComposeAlongPath ==
    /\ \A r \in Routes :
         Resolve(r, auth_token) = IF Required(r, auth_token) THEN r ELSE LoginRoute
    /\ last.op = "navigate" =>
         location = IF Required(last.route, auth_token) THEN last.route ELSE LoginRoute

\* A logged-in non-administrator asked for a route nested in /manage and was
\* sent to /login.
C13_Witness ==
    /\ last.op = "navigate"
    /\ last.route = Route("/manage", "/directory/domains")
    /\ is_logged_in(auth_token)
    /\ ~is_admin(auth_token)
    /\ location = LoginRoute

FlipValid(t) == [t EXCEPT !.is_valid = ~t.is_valid]

\* C14: isLoggedIn holds exactly when accessToken is non-empty, isAdmin is
\* false when it is empty, and the record with the other value of isValid
\* gives the same isLoggedIn, isAdmin and guard decision on every route.
C14_ViewsIgnoreValidity ==
    /\ is_logged_in(auth_token) <=> auth_token.access_token # ""
    /\ auth_token.access_token = "" => (~is_logged_in(auth_token) /\ ~is_admin(auth_token))
    /\ is_logged_in(FlipValid(auth_token)) = is_logged_in(auth_token)
    /\ is_admin(FlipValid(auth_token)) = is_admin(auth_token)
    /\ \A r \in Routes : Resolve(r, FlipValid(auth_token)) = Resolve(r, auth_token)

\* A timer has made a logged-in administrator's record stale.
C14_Witness ==
    /\ last.op = "timer"
    /\ ~auth_token.is_valid
    /\ is_logged_in(auth_token)
    /\ is_admin(auth_token)

\* C17: the route on display always passes its guards on the current
\* record; a change of the record that makes a guard of the displayed route
\* false redirects to /login in the same step, without a navigation.
C17_GuardFollowsRecord ==
    /\ [](Required(location, auth_token))
    /\ [][last'.op # "navigate" =>
            location' = IF Required(location, auth_token') THEN location ELSE LoginRoute]_vars

\* A logout on a page nested in /account has led to /login.
C17_Witness ==
    /\ last.op = "logout"
    /\ last.route = Route("/account", "/crypto")
    /\ location = LoginRoute
====
